---- MODULE Spec2Model ----
(***************************************************************************)
(* A model of the JsonWebDB client objects AnySQL (src/src/jsondb/AnySQL.ts)*)
(* and Insert (src/unnamed/part_000).                                      *)
(*                                                                         *)
(* One object is under test in a behaviour: instances share no state, so   *)
(* the caller either constructs an AnySQL or an Insert.  An asynchronous   *)
(* method is one step up to each await and one step when the awaited       *)
(* promise settles; pc says which await the object's single outstanding    *)
(* call is parked on.  A second operation is only started when pc is       *)
(* "idle": the caller configures the object, calls one operation and       *)
(* awaits it before touching the object again.                             *)
(*                                                                         *)
(* JavaScript values that may be null or undefined are tagged records, so  *)
(* that truthiness, == null and Array.isArray are computed as the engine   *)
(* computes them.                                                          *)
(***************************************************************************)
EXTENDS Integers, Sequences, FiniteSets, TLC

VARIABLES
    sql,        \* the AnySQL instance the caller holds, Null when there is none
    ins,        \* the Insert instance the caller holds, Null when there is none
    thrown,     \* what the most recent AnySQL constructor call threw, Null when it returned
    pc,         \* "idle", or the await the outstanding call is parked on:
                \* "describe" (this.table$.describe()) or "invoke" (this.session$.invoke(request))
    method,     \* the operation most recently called, "none" before the first
    request,    \* the outstanding call's local request, Null when no request is in flight
    response,   \* the response the most recent call got, Null while there is none
    result,     \* what the most recent call resolved to, Undefined while it is pending
    record,     \* the outstanding Insert.execute call's argument, Null when there is none
    invoked,    \* whether Session.invoke has been called at all
    ctor,       \* the arguments of the most recent AnySQL constructor call, Null before the first
    flag,       \* the argument of the most recent useSavePoint call, Undefined before the first
    columns     \* the argument of the most recent setReturnColumns call, Undefined before the first

vars == <<sql, ins, thrown, pc, method, request, response, result, record, invoked, ctor, flag, columns>>

----------------------------------------------------------------------------
(* Bounds of the model *)

MaxAffected == 2

MaxColumns == 2

MaxRecordColumns == 2

----------------------------------------------------------------------------
(* JavaScript values *)

Null == [type |-> "null"]

Undefined == [type |-> "undefined"]

Str(s) == [type |-> "string", val |-> s]

Bool(b) == [type |-> "boolean", val |-> b]

Num(n) == [type |-> "number", val |-> n]

Arr(a) == [type |-> "array", val |-> a]

\* v == null  (true of null and of undefined)
IsNullish(v) == v.type \in {"null", "undefined"}

\* the truthiness test of if (v) and !v
Truthy(v) ==
    CASE v.type \in {"null", "undefined"} -> FALSE
      [] v.type = "string"  -> v.val # ""
      [] v.type = "boolean" -> v.val
      [] v.type = "number"  -> v.val # 0
      [] OTHER              -> TRUE

IsArray(v) == v.type = "array"

\* obj.k, undefined when obj has no property k
Get(obj, k) == IF k \in DOMAIN obj THEN obj[k] ELSE Undefined

\* obj.k = v
Put(obj, k, v) == [x \in DOMAIN obj \cup {k} |-> IF x = k THEN v ELSE obj[x]]

----------------------------------------------------------------------------
(* The collaborators' values the caller and the backend supply *)

Session == [type |-> "Session", sessionID |-> "s1"]

Sessions == {Null, Session}

Sources == {Null, Undefined, Str(""), Str("delete from emp")}

NameValuePair(n, v) == [type |-> "NameValuePair", name |-> n, value |-> v]

BindValues ==
    { Undefined, Null,
      NameValuePair("id", Num(1)),
      Arr(<<>>),
      Arr(<<NameValuePair("id", Num(1)), NameValuePair("name", Str("x"))>>) }

Flags == {Null, Bool(TRUE), Bool(FALSE)}

Messages == {"X", "Y"}

Rows == {<<>>, <<<<Num(1), Str("x")>>>>}

----------------------------------------------------------------------------
(* AnySQL *)

\* private errm$ = null; affected$ = 0; success$ = true; savepoint$ = null;
\* bindvalues$ = null, then the constructor's assignments
AnySQLFields(session, source, bindvalues) ==
    [ type       |-> "AnySQL",
      errm       |-> Null,
      affected   |-> Num(0),
      success    |-> TRUE,
      source     |-> source,
      session    |-> session,
      savepoint  |-> Null,
      bindvalues |-> IF ~IsNullish(bindvalues)
                     THEN (IF ~IsArray(bindvalues) THEN Arr(<<bindvalues>>) ELSE bindvalues)
                     ELSE Null ]

\* a constructor that forgets to validate the session
AnySQLConstructor_unchecked_session(session, source, bindvalues) ==
    IF ~Truthy(source)
    THEN [thrown |-> Str("SOURCE_IS_NULL"), object |-> Null]
    ELSE [thrown |-> Null, object |-> AnySQLFields(session, source, bindvalues)]

\* new AnySQL(session, source, bindvalues): what it throws and the object it returns
AnySQLConstructor(session, source, bindvalues) ==
    IF ~Truthy(source)
    THEN [thrown |-> Str("SOURCE_IS_NULL"), object |-> Null]
    ELSE IF ~Truthy(session)
    THEN [thrown |-> Str("SESSION_IS_NULL"), object |-> Null]
    ELSE [thrown |-> Null, object |-> AnySQLFields(session, source, bindvalues)]

failed(this) == ~this.success

getErrorMessage(this) == this.errm

affected(this) == this.affected

\* the request envelope every AnySQL method starts from, with the optional
\* bindvalues and savepoint properties
SqlEnvelope(this, invoke) ==
    LET base == [invoke |-> invoke, source |-> this.source,
                 session |-> this.session.sessionID]
        bound == IF Truthy(this.bindvalues)
                 THEN Put(base, "bindvalues", this.bindvalues) ELSE base
    IN  IF ~IsNullish(this.savepoint)
        THEN Put(bound, "savepoint", this.savepoint) ELSE bound

execute_request(this) == [Sql |-> SqlEnvelope(this, "execute")]

insert_request(this) == [Sql |-> SqlEnvelope(this, "insert")]

update_request(this) == [Sql |-> SqlEnvelope(this, "update")]

delete_request(this) == [Sql |-> SqlEnvelope(this, "delete")]

\* an execute that leaves the error message as it was
execute_response_keeps_message(this, resp) ==
    [ this   |-> [this EXCEPT !.success = resp.success],
      result |-> Bool(resp.success) ]

\* what execute() does with the response: the object afterwards and the value
\* the promise resolves to
execute_response(this, resp) ==
    [ this   |-> [this EXCEPT !.errm = Get(resp, "message"),
                              !.success = resp.success],
      result |-> Bool(resp.success) ]

\* the insert/update/delete tail that forgets to copy affected
insert_response_uncopied(this, resp) ==
    [ this   |-> [this EXCEPT !.errm = Get(resp, "message"),
                              !.success = resp.success],
      result |-> Bool(resp.success) ]

insert_response(this, resp) ==
    LET copied == [this EXCEPT !.errm = Get(resp, "message"),
                               !.success = resp.success]
    IN  [ this   |-> IF copied.success
                     THEN [copied EXCEPT !.affected = Get(resp, "affected")]
                     ELSE copied,
          result |-> Bool(copied.success) ]

update_response(this, resp) ==
    LET copied == [this EXCEPT !.errm = Get(resp, "message"),
                               !.success = resp.success]
    IN  [ this   |-> IF copied.success
                     THEN [copied EXCEPT !.affected = Get(resp, "affected")]
                     ELSE copied,
          result |-> Bool(copied.success) ]

delete_response(this, resp) ==
    LET copied == [this EXCEPT !.errm = Get(resp, "message"),
                               !.success = resp.success]
    IN  [ this   |-> IF copied.success
                     THEN [copied EXCEPT !.affected = Get(resp, "affected")]
                     ELSE copied,
          result |-> Bool(copied.success) ]

----------------------------------------------------------------------------
(* AnySQL.select *)

\* Column names are spelled as sequences of characters: the code lower-cases them.
UpperCase == <<"A","B","C","D","E","F","G","H","I","J","K","L","M",
               "N","O","P","Q","R","S","T","U","V","W","X","Y","Z">>

LowerCase == <<"a","b","c","d","e","f","g","h","i","j","k","l","m",
               "n","o","p","q","r","s","t","u","v","w","x","y","z">>

toLowerCaseChar(c) ==
    IF \E i \in DOMAIN UpperCase : UpperCase[i] = c
    THEN LowerCase[CHOOSE i \in DOMAIN UpperCase : UpperCase[i] = c]
    ELSE c

\* a key function that keeps the name's case
toLowerCase_identity(s) == s

\* String.prototype.toLowerCase
toLowerCase(s) == [i \in DOMAIN s |-> toLowerCaseChar(s[i])]

\* A Map is its entries in insertion order.
NewMap == <<>>

MapHas(map, key) == \E i \in DOMAIN map : map[i].key = key

\* Map.prototype.set: a new key is appended, a known key keeps its place and
\* gets the new value
MapSet(map, key, value) ==
    IF MapHas(map, key)
    THEN [i \in DOMAIN map |->
            IF map[i].key = key THEN [key |-> key, value |-> value] ELSE map[i]]
    ELSE Append(map, [key |-> key, value |-> value])

MapGet(map, key) ==
    IF MapHas(map, key)
    THEN map[CHOOSE i \in DOMAIN map : map[i].key = key].value
    ELSE Undefined

MapKeys(map) == {map[i].key : i \in DOMAIN map}

\* new ColumnDefinition() with the four properties copied from the descriptor
ColumnDefinition(coldef) ==
    [ name      |-> coldef.name,
      type      |-> Get(coldef, "type"),
      sqltype   |-> Get(coldef, "sqltype"),
      precision |-> Get(coldef, "precision") ]

\* the column descriptors a select response may carry
ColumnDescriptors ==
    { [name |-> <<"A">>],
      [name |-> <<"a">>, type |-> Str("integer"), sqltype |-> Str("INT"),
       precision |-> Arr(<<Num(10), Num(0)>>)],
      [name |-> <<"I", "d">>, type |-> Str("string"), sqltype |-> Str("VARCHAR"),
       precision |-> Arr(<<Num(20)>>)] }

SeqsUpTo(S, n) == UNION {[1..k -> S] : k \in 0..n}

\* response.columns.forEach(coldef => ...): the names pushed to cols and the
\* map filled, after the descriptors from the i-th on
RECURSIVE forEach_coldef(_, _, _, _)
forEach_coldef(coldefs, i, cols, map) ==
    IF i > Len(coldefs)
    THEN [cols |-> cols, columns |-> map]
    ELSE LET column == ColumnDefinition(coldefs[i])
         IN  forEach_coldef(coldefs, i + 1,
                            Append(cols, column.name),
                            MapSet(map, toLowerCase(column.name), column))

\* new Cursor(session, columns, response): the Cursor holds what it was given
Cursor(session, columndefs, resp) ==
    [ type |-> "Cursor", session |-> session, columns |-> columndefs, response |-> resp ]

select_request(this, close, arrayfetch) ==
    LET close1 == IF IsNullish(close) THEN Bool(FALSE) ELSE close
        arrayfetch1 == IF IsNullish(arrayfetch) THEN Num(1) ELSE arrayfetch
        base == [invoke |-> "select", source |-> this.source,
                 session |-> this.session.sessionID]
        sel == Put(base, "select()", [x \in {"page-size"} |-> arrayfetch1])
        bound == IF Truthy(this.bindvalues)
                 THEN Put(sel, "bindvalues", this.bindvalues) ELSE sel
        saved == IF ~IsNullish(this.savepoint)
                 THEN Put(bound, "savepoint", this.savepoint) ELSE bound
    IN  [Sql |-> IF Truthy(close1)
                 THEN Put(saved, "select()", Put(saved["select()"], "cursor", Bool(FALSE)))
                 ELSE saved]

\* a select that hands out a Cursor whatever the response says
select_response_always_cursor(this, resp) ==
    LET copied == [this EXCEPT !.errm = Get(resp, "message"),
                               !.success = resp.success]
        each == forEach_coldef(Get(resp, "columns"), 1, <<>>, NewMap)
    IN  [ this   |-> copied,
          result |-> IF "columns" \in DOMAIN resp
                     THEN Cursor(this.session, each.columns, Put(resp, "columns", each.cols))
                     ELSE Cursor(this.session, NewMap, resp) ]

select_response(this, resp) ==
    LET copied == [this EXCEPT !.errm = Get(resp, "message"),
                               !.success = resp.success]
        each == forEach_coldef(resp.columns, 1, <<>>, NewMap)
    IN  [ this   |-> copied,
          result |-> IF resp.success
                     THEN Cursor(this.session, each.columns, Put(resp, "columns", each.cols))
                     ELSE Null ]

----------------------------------------------------------------------------
(* Insert *)

\* the Table an Insert is built from: its source, session, bind values and
\* the column definitions getColumnDefinitions() returns
Table(bindvalues) ==
    [ type       |-> "Table",
      source     |-> Str("emp"),
      session    |-> Session,
      bindvalues |-> bindvalues,
      columndefs |-> MapSet(NewMap, <<"i", "d">>,
                            [name |-> <<"i", "d">>, type |-> Str("integer"),
                             sqltype |-> Str("INT"), precision |-> Arr(<<Num(10)>>)]) ]

Tables == {Table(Null), Table(Arr(<<NameValuePair("dept", Num(10))>>))}

\* the field initializers and new Insert(table)
InsertConstructor(table) ==
    [ type      |-> "Insert",
      errm      |-> Null,
      success   |-> TRUE,
      affected  |-> Num(0),
      cursor    |-> Null,
      table     |-> table,
      source    |-> table.source,
      session   |-> table.session,
      savepoint |-> Null,
      returning |-> Null ]

getReturnValues(this) == this.cursor

\* setReturnColumns that stores its argument as given
setReturnColumns_raw(this, cols) == [this EXCEPT !.returning = cols]

setReturnColumns(this, cols) ==
    [this EXCEPT !.returning = IF ~IsArray(cols) THEN Arr(<<cols>>) ELSE cols]

\* the arguments setReturnColumns is called with
ReturnColumns ==
    { Str("id"), Arr(<<>>), Arr(<<Str("id")>>), Arr(<<Str("id"), Str("name")>>) }

\* the records Insert.execute is called with: column names and values; a Record
\* may hold fewer values than columns
Values == {Num(1), Str("x")}

ColumnNames == {"id", "name"}

Records ==
    { [columns |-> c, values |-> v] :
        c \in SeqsUpTo(ColumnNames, MaxRecordColumns),
        v \in SeqsUpTo(Values, MaxRecordColumns) }

\* array[i] of a JavaScript array, indices from 0
At(array, i) == IF i + 1 \in DOMAIN array THEN array[i + 1] ELSE Undefined

\* a loop that stops one column early
insert_values_short(rec, i, cols) ==
    IF i + 1 < Len(rec.columns)
    THEN Append(cols, [column |-> At(rec.columns, i), value |-> At(rec.values, i)])
    ELSE cols

\* for (let i = 0; i < record.columns.length; i++) cols.push({column, value})
RECURSIVE insert_values(_, _, _)
insert_values(rec, i, cols) ==
    IF i < Len(rec.columns)
    THEN insert_values(rec, i + 1,
            Append(cols, [column |-> At(rec.columns, i), value |-> At(rec.values, i)]))
    ELSE cols

\* an execute that starts without clearing the last call's results
Insert_execute_reset_nothing(this) == this

\* the first part of Insert.execute: this.affected$ = 0; this.cursor$ = null
Insert_execute_reset(this) == [this EXCEPT !.affected = Num(0), !.cursor = Null]

\* the request Insert.execute builds after describe()
Insert_execute_request(this, rec) ==
    LET base == [invoke |-> "insert", source |-> this.source,
                 session |-> this.session.sessionID]
        bound == IF Truthy(this.table.bindvalues)
                 THEN Put(base, "bindvalues", this.table.bindvalues) ELSE base
        empty == [x \in {} |-> Undefined]
        saved == IF ~IsNullish(this.savepoint)
                 THEN Put(empty, "savepoint", this.savepoint) ELSE empty
        valued == Put(saved, "values", insert_values(rec, 0, <<>>))
        returned == IF Truthy(this.returning)
                    THEN Put(valued, "returning", this.returning) ELSE valued
    IN  [Table |-> Put(bound, "insert()", returned)]

\* what Insert.execute does with the response
Insert_execute_response(this, resp) ==
    LET copied == [this EXCEPT !.errm = Get(resp, "message"),
                               !.success = resp.success]
        counted == IF copied.success
                   THEN [copied EXCEPT !.affected = Get(resp, "affected")]
                   ELSE copied
        curs == [more |-> Bool(FALSE), rows |-> Get(resp, "rows"),
                 columns |-> counted.returning]
    IN  [ this   |-> IF counted.success /\ Truthy(counted.returning)
                     THEN [counted EXCEPT !.cursor =
                             Cursor(counted.session, counted.table.columndefs, curs)]
                     ELSE counted,
          result |-> Bool(counted.success) ]

----------------------------------------------------------------------------
(* The responses of the backend: success, the message of a failure, the row
   count of a mutating operation, the columns, rows and more of a select *)

FailureResponses == {[success |-> FALSE, message |-> Str(m)] : m \in Messages}

\* insert, update and delete: the backend returns the number of affected rows
RowCountResponses ==
    FailureResponses
    \cup {[success |-> TRUE, affected |-> Num(n)] : n \in 0..MaxAffected}

\* execute: the backend only returns success or failure; a row count, when it
\* sends one, is not looked at
ExecuteResponses == RowCountResponses \cup {[success |-> TRUE]}

SelectResponses ==
    FailureResponses
    \cup { [success |-> TRUE, columns |-> c, rows |-> r, more |-> Bool(m)] :
             c \in SeqsUpTo(ColumnDescriptors, MaxColumns), r \in Rows, m \in BOOLEAN }

TableInsertResponses ==
    FailureResponses
    \cup {[success |-> TRUE, affected |-> Num(n)] : n \in 0..MaxAffected}
    \cup {[success |-> TRUE, affected |-> Num(n), rows |-> r] :
             n \in 0..MaxAffected, r \in Rows}

----------------------------------------------------------------------------
(* The state machine *)

Init ==
    /\ sql = Null
    /\ ins = Null
    /\ thrown = Null
    /\ pc = "idle"
    /\ method = "none"
    /\ request = Null
    /\ response = Null
    /\ result = Undefined
    /\ record = Null
    /\ invoked = FALSE
    /\ ctor = Null
    /\ flag = Undefined
    /\ columns = Undefined

\* new AnySQL(session, source, bindvalues)
NewAnySQL ==
    /\ sql = Null /\ ins = Null
    /\ \E session \in Sessions, source \in Sources, bindvalues \in BindValues :
         LET made == AnySQLConstructor(session, source, bindvalues)
         IN  /\ sql' = made.object
             /\ thrown' = made.thrown
             /\ ctor' = [session |-> session, source |-> source, bindvalues |-> bindvalues]
    /\ UNCHANGED <<ins, pc, method, request, response, result, record, invoked, flag, columns>>

\* new Insert(table)
NewInsert ==
    /\ sql = Null /\ ins = Null /\ ctor = Null
    /\ \E table \in Tables : ins' = InsertConstructor(table)
    /\ UNCHANGED <<sql, thrown, pc, method, request, response, result, record, invoked, ctor, flag, columns>>

\* AnySQL.useSavePoint(flag)
AnySQL_useSavePoint ==
    /\ sql # Null
    /\ pc = "idle"
    /\ \E f \in Flags : sql' = [sql EXCEPT !.savepoint = f] /\ flag' = f
    /\ UNCHANGED <<ins, thrown, pc, method, request, response, result, record, invoked, ctor, columns>>

\* AnySQL.execute() up to await this.session$.invoke(request)
AnySQL_execute ==
    /\ sql # Null
    /\ pc = "idle"
    /\ request' = execute_request(sql)
    /\ pc' = "invoke"
    /\ method' = "AnySQL.execute"
    /\ invoked' = TRUE
    /\ response' = Null
    /\ result' = Undefined
    /\ UNCHANGED <<sql, ins, thrown, record, ctor, flag, columns>>

\* AnySQL.execute() from the response on
AnySQL_execute_settled ==
    /\ pc = "invoke" /\ method = "AnySQL.execute"
    /\ \E resp \in ExecuteResponses :
         /\ response' = resp
         /\ sql' = execute_response(sql, resp).this
         /\ result' = execute_response(sql, resp).result
    /\ pc' = "idle"
    /\ request' = Null
    /\ UNCHANGED <<ins, thrown, method, record, invoked, ctor, flag, columns>>

\* AnySQL.insert() up to await this.session$.invoke(request)
AnySQL_insert ==
    /\ sql # Null
    /\ pc = "idle"
    /\ request' = insert_request(sql)
    /\ pc' = "invoke"
    /\ method' = "AnySQL.insert"
    /\ invoked' = TRUE
    /\ response' = Null
    /\ result' = Undefined
    /\ UNCHANGED <<sql, ins, thrown, record, ctor, flag, columns>>

\* AnySQL.insert() from the response on
AnySQL_insert_settled ==
    /\ pc = "invoke" /\ method = "AnySQL.insert"
    /\ \E resp \in RowCountResponses :
         /\ response' = resp
         /\ sql' = insert_response(sql, resp).this
         /\ result' = insert_response(sql, resp).result
    /\ pc' = "idle"
    /\ request' = Null
    /\ UNCHANGED <<ins, thrown, method, record, invoked, ctor, flag, columns>>

\* AnySQL.update() up to await this.session$.invoke(request)
AnySQL_update ==
    /\ sql # Null
    /\ pc = "idle"
    /\ request' = update_request(sql)
    /\ pc' = "invoke"
    /\ method' = "AnySQL.update"
    /\ invoked' = TRUE
    /\ response' = Null
    /\ result' = Undefined
    /\ UNCHANGED <<sql, ins, thrown, record, ctor, flag, columns>>

\* AnySQL.update() from the response on
AnySQL_update_settled ==
    /\ pc = "invoke" /\ method = "AnySQL.update"
    /\ \E resp \in RowCountResponses :
         /\ response' = resp
         /\ sql' = update_response(sql, resp).this
         /\ result' = update_response(sql, resp).result
    /\ pc' = "idle"
    /\ request' = Null
    /\ UNCHANGED <<ins, thrown, method, record, invoked, ctor, flag, columns>>

\* AnySQL.delete() up to await this.session$.invoke(request)
AnySQL_delete ==
    /\ sql # Null
    /\ pc = "idle"
    /\ request' = delete_request(sql)
    /\ pc' = "invoke"
    /\ method' = "AnySQL.delete"
    /\ invoked' = TRUE
    /\ response' = Null
    /\ result' = Undefined
    /\ UNCHANGED <<sql, ins, thrown, record, ctor, flag, columns>>

\* AnySQL.delete() from the response on
AnySQL_delete_settled ==
    /\ pc = "invoke" /\ method = "AnySQL.delete"
    /\ \E resp \in RowCountResponses :
         /\ response' = resp
         /\ sql' = delete_response(sql, resp).this
         /\ result' = delete_response(sql, resp).result
    /\ pc' = "idle"
    /\ request' = Null
    /\ UNCHANGED <<ins, thrown, method, record, invoked, ctor, flag, columns>>

\* the arguments select is called with
CloseArgs == {Undefined, Bool(TRUE), Bool(FALSE)}

ArrayFetchArgs == {Undefined, Num(25)}

\* AnySQL.select() up to await this.session$.invoke(request)
AnySQL_select ==
    /\ sql # Null
    /\ pc = "idle"
    /\ \E close \in CloseArgs, arrayfetch \in ArrayFetchArgs :
         request' = select_request(sql, close, arrayfetch)
    /\ pc' = "invoke"
    /\ method' = "AnySQL.select"
    /\ invoked' = TRUE
    /\ response' = Null
    /\ result' = Undefined
    /\ UNCHANGED <<sql, ins, thrown, record, ctor, flag, columns>>

\* AnySQL.select() from the response on
AnySQL_select_settled ==
    /\ pc = "invoke" /\ method = "AnySQL.select"
    /\ \E resp \in SelectResponses :
         /\ response' = resp
         /\ sql' = select_response(sql, resp).this
         /\ result' = select_response(sql, resp).result
    /\ pc' = "idle"
    /\ request' = Null
    /\ UNCHANGED <<ins, thrown, method, record, invoked, ctor, flag, columns>>

\* Insert.setReturnColumns(columns)
Insert_setReturnColumns ==
    /\ ins # Null
    /\ pc = "idle"
    /\ \E cols \in ReturnColumns : ins' = setReturnColumns(ins, cols) /\ columns' = cols
    /\ UNCHANGED <<sql, thrown, pc, method, request, response, result, record, invoked, ctor, flag>>

\* Insert.useSavePoint(flag)
Insert_useSavePoint ==
    /\ ins # Null
    /\ pc = "idle"
    /\ \E f \in Flags : ins' = [ins EXCEPT !.savepoint = f] /\ flag' = f
    /\ UNCHANGED <<sql, thrown, pc, method, request, response, result, record, invoked, ctor, columns>>

\* Insert.execute(record) up to await this.table$.describe()
Insert_execute ==
    /\ ins # Null
    /\ pc = "idle"
    /\ \E rec \in Records : record' = rec
    /\ ins' = Insert_execute_reset(ins)
    /\ pc' = "describe"
    /\ method' = "Insert.execute"
    /\ response' = Null
    /\ result' = Undefined
    /\ UNCHANGED <<sql, thrown, request, invoked, ctor, flag, columns>>

\* Insert.execute from describe() to await this.session$.invoke(request)
Insert_execute_described ==
    /\ pc = "describe" /\ method = "Insert.execute"
    /\ request' = Insert_execute_request(ins, record)
    /\ pc' = "invoke"
    /\ invoked' = TRUE
    /\ UNCHANGED <<sql, ins, thrown, method, response, result, record, ctor, flag, columns>>

\* Insert.execute from the response on
Insert_execute_settled ==
    /\ pc = "invoke" /\ method = "Insert.execute"
    /\ \E resp \in TableInsertResponses :
         /\ response' = resp
         /\ ins' = Insert_execute_response(ins, resp).this
         /\ result' = Insert_execute_response(ins, resp).result
    /\ pc' = "idle"
    /\ request' = Null
    /\ record' = Null
    /\ UNCHANGED <<sql, thrown, method, invoked, ctor, flag, columns>>

Next ==
    \/ NewAnySQL
    \/ NewInsert
    \/ AnySQL_useSavePoint
    \/ AnySQL_execute
    \/ AnySQL_execute_settled
    \/ AnySQL_insert
    \/ AnySQL_insert_settled
    \/ AnySQL_update
    \/ AnySQL_update_settled
    \/ AnySQL_delete
    \/ AnySQL_delete_settled
    \/ AnySQL_select
    \/ AnySQL_select_settled
    \/ Insert_setReturnColumns
    \/ Insert_useSavePoint
    \/ Insert_execute
    \/ Insert_execute_described
    \/ Insert_execute_settled

Spec == Init /\ [][Next]_vars

----------------------------------------------------------------------------
(* Properties *)

\* the object under test
This == IF sql # Null THEN sql ELSE ins

Mutating == {"AnySQL.execute", "AnySQL.insert", "AnySQL.update", "AnySQL.delete"}

\* a call has settled and its response is at hand
Settled == pc = "idle" /\ response # Null

\* C1: constructing an AnySQL with a null, undefined or empty source, or with a
\* null session, throws SOURCE_IS_NULL or SESSION_IS_NULL whatever the bind
\* values are; the caller gets no object and Session.invoke has not been called.
C1_ConstructorThrows ==
    (ctor # Null /\ (ctor.source \in {Null, Undefined, Str("")} \/ ctor.session = Null))
        => /\ thrown \in {Str("SOURCE_IS_NULL"), Str("SESSION_IS_NULL")}
           /\ (ctor.source \in {Null, Undefined, Str("")} => thrown = Str("SOURCE_IS_NULL"))
           /\ sql = Null
           /\ ~invoked
           /\ pc = "idle"

\* a constructor call with a usable source and a null session has thrown
C1_Witness ==
    /\ ctor # Null
    /\ ctor.source = Str("delete from emp")
    /\ ctor.session = Null
    /\ ctor.bindvalues.type = "array"
    /\ thrown = Str("SESSION_IS_NULL")

\* C2: whatever the operation (AnySQL.execute, insert, update, delete, select,
\* Insert.execute) and whatever the object's state before, a response with
\* success=false and message X settles the call without a throw (it resolves to
\* false, select to null), and afterwards failed() is true and
\* getErrorMessage() is X.
C2_FailureCaptured ==
    (Settled /\ ~response.success)
        => /\ failed(This)
           /\ getErrorMessage(This) = response.message
           /\ result = IF method = "AnySQL.select" THEN Null ELSE Bool(FALSE)
           /\ thrown = Null

\* a delete was declined with message X on an object whose savepoint flag is set
C2_Witness ==
    /\ Settled
    /\ method = "AnySQL.delete"
    /\ response = [success |-> FALSE, message |-> Str("X")]
    /\ sql.savepoint = Bool(TRUE)
    /\ failed(sql)

\* what a fresh object shows after its first call, as a function of the method
\* and the response: the only state "determined by the response alone" can mean
AffectedOf(m, resp) ==
    IF resp.success /\ m \in {"AnySQL.insert", "AnySQL.update", "AnySQL.delete", "Insert.execute"}
    THEN Get(resp, "affected")
    ELSE Num(0)

\* C3: after any sequence of non-overlapping calls, failed(), getErrorMessage(),
\* affected() (and getReturnValues() of an Insert) are determined by the most
\* recent call's response alone: no value of an earlier call remains visible.
C3_LastResponseAlone ==
    Settled
        => /\ failed(This) = ~response.success
           /\ getErrorMessage(This) = Get(response, "message")
           /\ affected(This) = AffectedOf(method, response)
           /\ (ins # Null /\ ~response.success => getReturnValues(ins) = Null)

\* C3 on Insert alone, where execute resets affected$ and cursor$ first
C3_InsertLastResponseAlone ==
    (Settled /\ ins # Null)
        => /\ failed(ins) = ~response.success
           /\ getErrorMessage(ins) = Get(response, "message")
           /\ affected(ins) = AffectedOf(method, response)
           /\ (~response.success => getReturnValues(ins) = Null)

\* C4 as claimed: after a successful execute, insert, update or delete,
\* affected() equals the affected count of the response.
C4_AffectedCopiedByAllFour ==
    (Settled /\ method \in Mutating /\ response.success /\ "affected" \in DOMAIN response)
        => affected(sql) = response.affected

\* C4 amended: insert, update and delete copy success and message and, on
\* success, affected from the response; execute copies success and message
\* only and leaves affected() as it was.
C4_AffectedCopiedByInsertUpdateDelete ==
    [][ (pc = "invoke" /\ pc' = "idle" /\ method \in Mutating)
          => /\ failed(sql') = ~response'.success
             /\ getErrorMessage(sql') = Get(response', "message")
             /\ request' = Null
             /\ (method # "AnySQL.execute" /\ response'.success
                   => affected(sql') = Get(response', "affected"))
             /\ (method # "AnySQL.execute" /\ ~response'.success
                   => affected(sql') = affected(sql))
             /\ (method = "AnySQL.execute" => affected(sql') = affected(sql)) ]_vars

\* a successful execute whose response counts rows the object does not show
C4_Witness ==
    /\ Settled
    /\ method = "AnySQL.execute"
    /\ response.success
    /\ "affected" \in DOMAIN response
    /\ affected(sql) # response.affected

\* C5: the request of Insert.execute carries in "insert()".values one entry
\* per column of the record, the i-th being {column: record.columns[i],
\* value: record.values[i]}.
C5_ValuesFollowRecord ==
    (pc = "invoke" /\ method = "Insert.execute")
        => LET values == request.Table["insert()"].values
           IN  /\ Len(values) = Len(record.columns)
               /\ \A i \in 1..Len(record.columns) :
                    /\ values[i].column = record.columns[i]
                    /\ values[i].value =
                         IF i <= Len(record.values) THEN record.values[i] ELSE Undefined

\* a request for a record of two different columns with two different values
C5_Witness ==
    /\ pc = "invoke" /\ method = "Insert.execute"
    /\ record.columns = <<"name", "id">>
    /\ record.values = <<Str("x"), Num(1)>>
    /\ Len(request.Table["insert()"].values) = 2

\* C6: when Insert.execute settles, getReturnValues() is a Cursor exactly when
\* setReturnColumns has been called and the backend reported success; the
\* Cursor's columns are the columns asked for (a single string as a list of
\* one), its rows the rows of the response and more is false.  Otherwise it
\* is null.
C6_ReturnValues ==
    [][ (pc = "invoke" /\ pc' = "idle" /\ method = "Insert.execute")
          => IF columns # Undefined /\ response'.success
             THEN /\ getReturnValues(ins').type = "Cursor"
                  /\ getReturnValues(ins').response.columns =
                        (IF columns.type = "string" THEN Arr(<<columns>>) ELSE columns)
                  /\ getReturnValues(ins').response.rows = Get(response', "rows")
                  /\ getReturnValues(ins').response.more = Bool(FALSE)
             ELSE getReturnValues(ins') = Null ]_vars

\* an insert that asked for the single column "id" has returned a Cursor
C6_Witness ==
    /\ Settled /\ method = "Insert.execute"
    /\ columns = Str("id")
    /\ getReturnValues(ins) # Null
    /\ "rows" \in DOMAIN response

\* the lower-case spelling of the names the descriptors carry
LowerCased(name) ==
    CASE name = <<"A">> -> <<"a">>
      [] name = <<"a">> -> <<"a">>
      [] name = <<"I", "d">> -> <<"i", "d">>

\* the definition a descriptor is converted to
Converted(coldef) ==
    [ name |-> coldef.name, type |-> Get(coldef, "type"),
      sqltype |-> Get(coldef, "sqltype"), precision |-> Get(coldef, "precision") ]

\* C7 as claimed: the Cursor of a successful select exposes exactly one column
\* definition per descriptor of the response, each under the lower-cased name
\* of its descriptor and carrying its type, sqltype and precision.
C7_OneDefinitionPerDescriptor ==
    (Settled /\ method = "AnySQL.select" /\ response.success)
        => /\ Len(result.columns) = Len(response.columns)
           /\ \A i \in DOMAIN response.columns :
                MapGet(result.columns, LowerCased(response.columns[i].name))
                    = Converted(response.columns[i])

\* C7 amended: the Cursor exposes exactly one column definition per distinct
\* lower-cased descriptor name, under that name, carrying the name, type,
\* sqltype and precision of the last descriptor of that name; so one per
\* descriptor when the lower-cased names differ, and exactly one column "a"
\* for the columns [{name:"A"}].
C7_OneDefinitionPerName ==
    (Settled /\ method = "AnySQL.select" /\ response.success)
        => LET descs == response.columns
               defs  == result.columns
               last(i) == \A j \in DOMAIN descs :
                             LowerCased(descs[j].name) = LowerCased(descs[i].name) => j <= i
           IN  /\ MapKeys(defs) = {LowerCased(descs[i].name) : i \in DOMAIN descs}
               /\ Len(defs) = Cardinality(MapKeys(defs))
               /\ \A i \in DOMAIN descs :
                    last(i) => MapGet(defs, LowerCased(descs[i].name)) = Converted(descs[i])
               /\ ((\A i, j \in DOMAIN descs :
                       LowerCased(descs[i].name) = LowerCased(descs[j].name) => i = j)
                     => Len(defs) = Len(descs))
               /\ result.response.columns = [i \in DOMAIN descs |-> descs[i].name]

\* a select answered with the columns A and a: the Cursor has the one column a,
\* with the type of the second descriptor
C7_Witness ==
    /\ Settled /\ method = "AnySQL.select"
    /\ response.success
    /\ Len(response.columns) = 2
    /\ response.columns[1] = [name |-> <<"A">>]
    /\ response.columns[2].name = <<"a">>
    /\ MapKeys(result.columns) = {<<"a">>}
    /\ Len(result.columns) = 1
    /\ MapGet(result.columns, <<"a">>).type = Str("integer")

\* C8: select resolves to null exactly when the response reports failure and
\* to a Cursor otherwise, and failed() and getErrorMessage() show that response.
C8_SelectNullOnFailure ==
    (Settled /\ method = "AnySQL.select")
        => /\ (result = Null <=> ~response.success)
           /\ (response.success => result.type = "Cursor")
           /\ failed(sql) = ~response.success
           /\ getErrorMessage(sql) = Get(response, "message")

\* a declined select has resolved to null
C8_Witness ==
    /\ Settled /\ method = "AnySQL.select"
    /\ ~response.success
    /\ result = Null
    /\ getErrorMessage(sql) = Str("Y")

\* the envelope of a request: what sits next to invoke, source and session
Envelope(req) == IF "Sql" \in DOMAIN req THEN req.Sql ELSE req.Table

\* C9: the request of an operation has a savepoint property exactly when the
\* most recent useSavePoint call passed a flag that is not null; it carries
\* that flag and sits in the envelope, next to invoke, source and session,
\* for every operation of AnySQL and Insert.
C9_SavepointInEnvelope ==
    (pc = "invoke")
        => /\ ("savepoint" \in DOMAIN Envelope(request)) <=> ~IsNullish(flag)
           /\ ("savepoint" \in DOMAIN Envelope(request)
                 => Envelope(request).savepoint = flag)

\* C10: between the calls of an Insert, failed() implies affected() = 0 and
\* getReturnValues() = null; before the first call failed() is false,
\* getErrorMessage() is null, affected() is 0 and getReturnValues() is null.
C10_FailedInsertShowsNothing ==
    (ins # Null /\ pc = "idle")
        => /\ (failed(ins) => affected(ins) = Num(0) /\ getReturnValues(ins) = Null)
           /\ (method = "none"
                 => /\ ~failed(ins)
                    /\ getErrorMessage(ins) = Null
                    /\ affected(ins) = Num(0)
                    /\ getReturnValues(ins) = Null)

\* a declined insert on an Insert that asks for return columns
C10_Witness ==
    /\ ins # Null /\ Settled
    /\ failed(ins)
    /\ ins.returning = Arr(<<Str("id"), Str("name")>>)
    /\ getErrorMessage(ins) = Str("X")

====
